---- MODULE Spec2Model ----
(***************************************************************************)
(* Model of upload_file_to_tos (use-cases/video_gen/tool/tos_upload.py):   *)
(* the signed-upload workflow.  One invocation is a linear pass through    *)
(* configuration resolution, file validation, credential resolution,       *)
(* object-key derivation, client construction, bucket probe, transfer,     *)
(* URL signing, the except handlers and the finally block.  Every call to  *)
(* a collaborator (identity provider, TOS client) is recorded in `calls`,  *)
(* with the outcome the collaborator produced, so that ordering and        *)
(* call-count properties are state predicates.                             *)
(*                                                                         *)
(* Python values: an Optional[str] is None (the empty tuple) or Some(s),   *)
(* a one-element tuple; strings are TLA+ strings, and the f-strings of the *)
(* source are built by concatenation, so that "starts with" and "contains" *)
(* are computed on the text the function returns.                          *)
(***************************************************************************)
EXTENDS Integers, Sequences, FiniteSets, TLC

VARIABLES
    pc,             \* position in upload_file_to_tos ("idle" before the call)
    args,           \* the parameters of the current invocation
    env,            \* os.environ, as far as the function reads it
    bucket_name,    \* local: resolved bucket
    region,         \* local: resolved region
    access_key,     \* local
    secret_key,     \* local
    session_token,  \* local (shadows the parameter from line 114 on)
    object_key,     \* local: resolved object key
    client,         \* local: None or the constructed TosClientV2
    exc,            \* exception in flight inside the try block, or None
    ret,            \* value handed to `return`, or None
    outcome,        \* how the invocation ended: "running", "returned", "raised"
    calls           \* log of collaborator calls of this invocation

vars == <<pc, args, env, bucket_name, region, access_key, secret_key,
          session_token, object_key, client, exc, ret, outcome, calls>>

----------------------------------------------------------------------------
(* Python values *)

None == <<>>
Some(s) == <<s>>
Val(o) == o[1]

\* bool(o) for an Optional[str]: None and "" are falsy
Truthy(o) == o # None /\ Val(o) # ""

StartsWith(s, p) == Len(s) >= Len(p) /\ SubSeq(s, 1, Len(p)) = p

Contains(s, sub) ==
    \E i \in 1..(Len(s) - Len(sub) + 1) : SubSeq(s, i, i + Len(sub) - 1) = sub

----------------------------------------------------------------------------
(* Program constants and the bounded input sets *)

DefaultExpires == 604800
StatusNotFound == 404

\* consts.DEFAULT_BUCKET / consts.DEFAULT_REGION, imported at lines 35-38; the
\* values are the ones the docstring gives (lines 59 and 61)
DEFAULT_BUCKET == "aaa-bbb-ccc-ddd"
DEFAULT_REGION == "cn-beijing"

\* number of server status codes >= 500 the storage service may answer with
MaxServerStatus == 1

StatusCodes == {403, StatusNotFound} \cup (500 .. (500 + MaxServerStatus - 1))

\* The file system the function looks at: path -> kind
Paths == {"./video.mp4", "./clips", "./gone.mp4"}
PathKind(p) ==
    CASE p = "./video.mp4" -> "file"
      [] p = "./clips"     -> "dir"
      [] OTHER             -> "missing"

\* os.path.basename
Basename(p) ==
    CASE p = "./video.mp4" -> "video.mp4"
      [] p = "./clips"     -> "clips"
      [] OTHER             -> "gone.mp4"

\* datetime.now().strftime("%Y%m%d_%H%M%S")
Timestamps == {"20250102_030405"}

ArgSets ==
    [file_path     : Paths,
     bucket_name   : {None, Some("arg-bucket")},
     object_key    : {None, Some("k.mp4")},
     region        : {None, Some("arg-region")},
     ak            : {None, Some("AK_ARG")},
     sk            : {None, Some("SK_ARG")},
     session_token : {None, Some("TOK_ARG")},
     expires       : {DefaultExpires, 60}]

EnvSets ==
    [DATABASE_TOS_BUCKET   : {None, Some("env-bucket")},
     DATABASE_TOS_REGION   : {None, Some("env-region")},
     VOLCENGINE_ACCESS_KEY : {None, Some(""), Some("AK_ENV")},
     VOLCENGINE_SECRET_KEY : {None, Some(""), Some("SK_ENV")}]

\* Exceptions a collaborator may raise
TosServerError(s) ==
    [type |-> "TosServerError", status_code |-> s,
     code |-> IF s = StatusNotFound THEN "NoSuchBucket" ELSE "ServiceFault",
     message |-> "rejected"]
TosClientError == [type |-> "TosClientError", message |-> "client fault"]
OtherError == [type |-> "Exception", message |-> "unexpected"]

ServerFaults == {TosServerError(s) : s \in StatusCodes}
Faults == ServerFaults \cup {TosClientError, OtherError}

\* str(e)
Str(e) == e.message

----------------------------------------------------------------------------
(* Pure parts of the function *)

\* lines 80-89: bucket_name parameter, else DATABASE_TOS_BUCKET, else default
ResolveBucket(a, e) ==
    IF a.bucket_name # None THEN Val(a.bucket_name)
    ELSE IF e.DATABASE_TOS_BUCKET # None THEN Val(e.DATABASE_TOS_BUCKET)
    ELSE DEFAULT_BUCKET

\* lines 90-98: region parameter, else DATABASE_TOS_REGION, else default
ResolveRegion(a, e) ==
    IF a.region # None THEN Val(a.region)
    ELSE IF e.DATABASE_TOS_REGION # None THEN Val(e.DATABASE_TOS_REGION)
    ELSE DEFAULT_REGION

\* FileCheck without the os.path.isfile test of line 106
FileCheckExistsOnly(p) ==
    IF PathKind(p) = "missing" THEN Some("ERROR: File does not exist: " \o p)
    ELSE None

\* lines 100-109: None when the path is an existing regular file, else the
\* error message returned
FileCheck(p) ==
    IF PathKind(p) = "missing" THEN Some("ERROR: File does not exist: " \o p)
    ELSE IF PathKind(p) # "file" THEN Some("ERROR: Path is not a file: " \o p)
    ELSE None

\* line 116: `not (access_key and secret_key)`
NeedsIamFallback(ak, sk) == ~(Truthy(ak) /\ Truthy(sk))

\* line 127 with `and` in place of `or`
CredentialsMissingBoth(ak, sk) == ~Truthy(ak) /\ ~Truthy(sk)

\* line 127: `not access_key or not secret_key`
CredentialsMissing(ak, sk) == ~Truthy(ak) \/ ~Truthy(sk)

\* line 123
MsgIamFailed(e) ==
    "ERROR: Missing VOLCENGINE_ACCESS_KEY/VOLCENGINE_SECRET_KEY and failed to load VeFaaS IAM credentials: "
        \o Str(e)

\* line 128
MsgNotProvided ==
    "ERROR: VOLCENGINE_ACCESS_KEY and VOLCENGINE_SECRET_KEY are not provided (and IAM Role is not configured)."

\* lines 133-137
DeriveObjectKey(given, path, ts) ==
    IF Truthy(given) THEN Val(given)
    ELSE "upload/" \o Basename(path) \o "_" \o ts

\* line 143
Endpoint(r) == "tos-" \o r \o ".bytepluses.com"

\* lines 189-202: the message of the except clause that catches e
ExceptMessage(e) ==
    CASE e.type = "TosClientError" -> "ERROR: TOS client error: " \o Str(e)
      [] e.type = "TosServerError" ->
            "ERROR: TOS server error: status_code=" \o ToString(e.status_code)
                \o ", code=" \o e.code \o ", message=" \o e.message
      [] OTHER -> "ERROR: File upload failed: " \o Str(e)

\* lines 160-164: the inner handler swallows exactly a TosServerError with
\* status 404; everything else reaches the outer handlers
ProbeFaultSwallowed(e) ==
    e.type = "TosServerError" /\ e.status_code = StatusNotFound

\* the release moved out of the finally block to the end of the success path
ShouldCloseOnSuccessOnly(c) ==
    c # None /\ ret # None /\ ~StartsWith(Val(ret), "ERROR:")

\* line 205: `if client:`
ShouldClose(c) == c # None

\* The URL the service signs for a request (opaque; identifies the request)
SignedUrl(req) ==
    "https://" \o req.bucket \o "." \o req.endpoint \o "/" \o req.key
        \o "?X-Tos-Expires=" \o ToString(req.expires) \o "&X-Tos-Signature=sig"

\* Credentials the identity provider may hand out
IamCredentials ==
    [access_key_id     : {Some(""), Some("AK_IAM")},
     secret_access_key : {Some(""), Some("SK_IAM")},
     session_token     : {Some("TOK_IAM")}]

\* One entry of the call log: the operation, its request, and either the
\* value it returned (res) or the exception it raised (fault)
Call(op, req, res, fault) ==
    [op |-> op, req |-> req, res |-> res, fault |-> fault]

----------------------------------------------------------------------------
NoArgs ==
    [file_path |-> "./video.mp4", bucket_name |-> None, object_key |-> None,
     region |-> None, ak |-> None, sk |-> None, session_token |-> None,
     expires |-> DefaultExpires]

NoEnv ==
    [DATABASE_TOS_BUCKET |-> None, DATABASE_TOS_REGION |-> None,
     VOLCENGINE_ACCESS_KEY |-> None, VOLCENGINE_SECRET_KEY |-> None]

Init ==
    /\ pc = "idle"
    /\ args = NoArgs
    /\ env = NoEnv
    /\ bucket_name = None
    /\ region = None
    /\ access_key = None
    /\ secret_key = None
    /\ session_token = None
    /\ object_key = None
    /\ client = None
    /\ exc = None
    /\ ret = None
    /\ outcome = "idle"
    /\ calls = <<>>

\* A caller invokes upload_file_to_tos(...) in some environment (lines 44-53).
Invoke ==
    /\ pc = "idle"
    /\ \E a \in ArgSets, e \in EnvSets :
          /\ args' = a
          /\ env' = e
    /\ pc' = "config"
    /\ outcome' = "running"
    /\ bucket_name' = None /\ region' = None
    /\ access_key' = None /\ secret_key' = None /\ session_token' = None
    /\ object_key' = None /\ client' = None /\ exc' = None /\ ret' = None
    /\ calls' = <<>>

\* `return v` outside the try block
ReturnNow(v) ==
    /\ ret' = Some(v)
    /\ outcome' = "returned"
    /\ pc' = "done"

\* lines 80-98
ResolveConfig ==
    /\ pc = "config"
    /\ bucket_name' = Some(ResolveBucket(args, env))
    /\ region' = Some(ResolveRegion(args, env))
    /\ pc' = "validate"
    /\ UNCHANGED <<args, env, access_key, secret_key, session_token,
                   object_key, client, exc, ret, outcome, calls>>

\* lines 100-109
ValidateFile ==
    /\ pc = "validate"
    /\ IF FileCheck(args.file_path) # None
       THEN ReturnNow(Val(FileCheck(args.file_path)))
       ELSE pc' = "creds" /\ UNCHANGED <<ret, outcome>>
    /\ UNCHANGED <<args, env, bucket_name, region, access_key, secret_key,
                   session_token, object_key, client, exc, calls>>

\* lines 112-116: the locals are set from the environment; the parameters
\* ak, sk and session_token are not read
ReadEnvCredentials ==
    /\ pc = "creds"
    /\ access_key' = env.VOLCENGINE_ACCESS_KEY
    /\ secret_key' = env.VOLCENGINE_SECRET_KEY
    /\ session_token' = Some("")
    /\ pc' = IF NeedsIamFallback(env.VOLCENGINE_ACCESS_KEY,
                                 env.VOLCENGINE_SECRET_KEY)
             THEN "iam" ELSE "check"
    /\ UNCHANGED <<args, env, bucket_name, region, object_key, client, exc,
                   ret, outcome, calls>>

\* lines 117-121: get_credential_from_vefaas_iam() answers
IamFallbackOk ==
    /\ pc = "iam"
    /\ \E cred \in IamCredentials :
          /\ access_key' = cred.access_key_id
          /\ secret_key' = cred.secret_access_key
          /\ session_token' = cred.session_token
          /\ calls' = Append(calls, Call("iam", None, Some(cred), None))
    /\ pc' = "check"
    /\ UNCHANGED <<args, env, bucket_name, region, object_key, client, exc,
                   ret, outcome>>

\* lines 117-125: get_credential_from_vefaas_iam() raises
IamFallbackFails ==
    /\ pc = "iam"
    /\ \E e \in {OtherError, TosClientError} :
          /\ calls' = Append(calls, Call("iam", None, None, Some(e)))
          /\ ReturnNow(MsgIamFailed(e))
    /\ UNCHANGED <<args, env, bucket_name, region, access_key, secret_key,
                   session_token, object_key, client, exc>>

\* lines 127-130
CheckCredentials ==
    /\ pc = "check"
    /\ IF CredentialsMissing(access_key, secret_key)
       THEN ReturnNow(MsgNotProvided)
       ELSE pc' = "key" /\ UNCHANGED <<ret, outcome>>
    /\ UNCHANGED <<args, env, bucket_name, region, access_key, secret_key,
                   session_token, object_key, client, exc, calls>>

\* lines 132-137
ObjectKeyStep ==
    /\ pc = "key"
    /\ \E ts \in Timestamps :
          object_key' = Some(DeriveObjectKey(args.object_key, args.file_path, ts))
    /\ pc' = "ctor"
    /\ UNCHANGED <<args, env, bucket_name, region, access_key, secret_key,
                   session_token, client, exc, ret, outcome, calls>>

\* lines 144-150: the arguments of tos.TosClientV2(...)
CtorRequest ==
    [ak |-> access_key, sk |-> secret_key, security_token |-> session_token,
     endpoint |-> Endpoint(Val(region)), region |-> Val(region)]

\* lines 140-150: tos.TosClientV2(...) returns a client
ConstructClientOk ==
    /\ pc = "ctor"
    /\ client' = Some(CtorRequest)
    /\ calls' = Append(calls, Call("ctor", CtorRequest, None, None))
    /\ pc' = "probe"
    /\ UNCHANGED <<args, env, bucket_name, region, access_key, secret_key,
                   session_token, object_key, exc, ret, outcome>>

\* lines 140-150: tos.TosClientV2(...) raises; client stays None
ConstructClientFails ==
    /\ pc = "ctor"
    /\ \E e \in {TosClientError, OtherError} :
          /\ calls' = Append(calls, Call("ctor", CtorRequest, None, Some(e)))
          /\ exc' = Some(e)
    /\ pc' = "except"
    /\ UNCHANGED <<args, env, bucket_name, region, access_key, secret_key,
                   session_token, object_key, client, ret, outcome>>

\* lines 157-159: client.head_bucket(bucket_name) reports the bucket
HeadBucketFound ==
    /\ pc = "probe"
    /\ calls' = Append(calls,
          Call("head_bucket", [bucket |-> Val(bucket_name)], None, None))
    /\ pc' = "put"
    /\ UNCHANGED <<args, env, bucket_name, region, access_key, secret_key,
                   session_token, object_key, client, exc, ret, outcome>>

\* lines 157-164: client.head_bucket(bucket_name) raises
HeadBucketFails ==
    /\ pc = "probe"
    /\ \E e \in Faults :
          /\ calls' = Append(calls,
                Call("head_bucket", [bucket |-> Val(bucket_name)], None, Some(e)))
          /\ IF ProbeFaultSwallowed(e)
             THEN pc' = "put" /\ exc' = exc
             ELSE pc' = "except" /\ exc' = Some(e)
    /\ UNCHANGED <<args, env, bucket_name, region, access_key, secret_key,
                   session_token, object_key, client, ret, outcome>>

PutRequest ==
    [bucket |-> Val(bucket_name), key |-> Val(object_key),
     file_path |-> args.file_path]

\* lines 167-173: client.put_object_from_file(...) succeeds
PutObjectOk ==
    /\ pc = "put"
    /\ calls' = Append(calls, Call("put_object_from_file", PutRequest, None, None))
    /\ pc' = "sign"
    /\ UNCHANGED <<args, env, bucket_name, region, access_key, secret_key,
                   session_token, object_key, client, exc, ret, outcome>>

\* lines 167-169: client.put_object_from_file(...) raises
PutObjectFails ==
    /\ pc = "put"
    /\ \E e \in Faults :
          /\ calls' = Append(calls,
                Call("put_object_from_file", PutRequest, None, Some(e)))
          /\ exc' = Some(e)
    /\ pc' = "except"
    /\ UNCHANGED <<args, env, bucket_name, region, access_key, secret_key,
                   session_token, object_key, client, ret, outcome>>

SignRequest ==
    [http_method |-> "GET", bucket |-> Val(bucket_name),
     key |-> Val(object_key), expires |-> args.expires,
     endpoint |-> Val(client).endpoint]

\* PreSignedUrlOk with a client.close() before `return signed_url`, in addition
\* to the one of the finally block
PreSignedUrlOkClosesEarly ==
    /\ pc = "sign"
    /\ calls' = calls \o
          << Call("pre_signed_url", SignRequest, Some(SignedUrl(SignRequest)), None),
             Call("close", Val(client), None, None) >>
    /\ ret' = Some(SignedUrl(SignRequest))
    /\ pc' = "finally"
    /\ UNCHANGED <<args, env, bucket_name, region, access_key, secret_key,
                   session_token, object_key, client, exc, outcome>>

\* lines 176-187: client.pre_signed_url(...) answers; `return signed_url`
\* leaves through the finally block
PreSignedUrlOk ==
    /\ pc = "sign"
    /\ calls' = Append(calls,
          Call("pre_signed_url", SignRequest, Some(SignedUrl(SignRequest)), None))
    /\ ret' = Some(SignedUrl(SignRequest))
    /\ pc' = "finally"
    /\ UNCHANGED <<args, env, bucket_name, region, access_key, secret_key,
                   session_token, object_key, client, exc, outcome>>

\* lines 176-181: client.pre_signed_url(...) raises
PreSignedUrlFails ==
    /\ pc = "sign"
    /\ \E e \in Faults :
          /\ calls' = Append(calls,
                Call("pre_signed_url", SignRequest, None, Some(e)))
          /\ exc' = Some(e)
    /\ pc' = "except"
    /\ UNCHANGED <<args, env, bucket_name, region, access_key, secret_key,
                   session_token, object_key, client, ret, outcome>>

\* lines 189-202: the matching except clause builds the message and returns
\* it through the finally block
HandleException ==
    /\ pc = "except"
    /\ ret' = Some(ExceptMessage(Val(exc)))
    /\ exc' = None
    /\ pc' = "finally"
    /\ UNCHANGED <<args, env, bucket_name, region, access_key, secret_key,
                   session_token, object_key, client, outcome, calls>>

\* lines 203-206: no client was constructed; the pending return completes
FinallyNoClient ==
    /\ pc = "finally"
    /\ ~ShouldClose(client)
    /\ outcome' = "returned"
    /\ pc' = "done"
    /\ UNCHANGED <<args, env, bucket_name, region, access_key, secret_key,
                   session_token, object_key, client, exc, ret, calls>>

\* lines 203-206: client.close() returns; the pending return completes
FinallyCloseOk ==
    /\ pc = "finally"
    /\ ShouldClose(client)
    /\ calls' = Append(calls, Call("close", Val(client), None, None))
    /\ outcome' = "returned"
    /\ pc' = "done"
    /\ UNCHANGED <<args, env, bucket_name, region, access_key, secret_key,
                   session_token, object_key, client, exc, ret>>

\* lines 203-206: client.close() raises inside the finally block; the
\* exception replaces the pending return and leaves the function
FinallyCloseFails ==
    /\ pc = "finally"
    /\ ShouldClose(client)
    /\ \E e \in {TosClientError, OtherError} :
          /\ calls' = Append(calls, Call("close", Val(client), None, Some(e)))
          /\ exc' = Some(e)
    /\ ret' = None
    /\ outcome' = "raised"
    /\ pc' = "done"
    /\ UNCHANGED <<args, env, bucket_name, region, access_key, secret_key,
                   session_token, object_key, client>>

Next ==
    \/ Invoke
    \/ ResolveConfig
    \/ ValidateFile
    \/ ReadEnvCredentials
    \/ IamFallbackOk
    \/ IamFallbackFails
    \/ CheckCredentials
    \/ ObjectKeyStep
    \/ ConstructClientOk
    \/ ConstructClientFails
    \/ HeadBucketFound
    \/ HeadBucketFails
    \/ PutObjectOk
    \/ PutObjectFails
    \/ PreSignedUrlOk
    \/ PreSignedUrlFails
    \/ HandleException
    \/ FinallyNoClient
    \/ FinallyCloseOk
    \/ FinallyCloseFails

Spec == Init /\ [][Next]_vars

----------------------------------------------------------------------------
(* Vocabulary of the properties *)

Ended == pc = "done"
Returned == Ended /\ outcome = "returned"

CallsOf(op) == {i \in DOMAIN calls : calls[i].op = op}
Count(op) == Cardinality(CallsOf(op))

Succeeded(i) == calls[i].fault = None
Faulted(i) == calls[i].fault # None
FaultOf(i) == Val(calls[i].fault)

IsNotFound(i) ==
    /\ Faulted(i)
    /\ FaultOf(i).type = "TosServerError"
    /\ FaultOf(i).status_code = StatusNotFound

IsServerFault(i) == Faulted(i) /\ FaultOf(i).type = "TosServerError"

ClientConstructed == \E i \in CallsOf("ctor") : Succeeded(i)

RetIsError == ret # None /\ StartsWith(Val(ret), "ERROR:")

\* the returned value is the URL a successful signing call produced
RetIsSignedUrl ==
    \E i \in CallsOf("pre_signed_url") : Succeeded(i) /\ ret = calls[i].res

UploadSucceeded ==
    /\ \E i \in CallsOf("put_object_from_file") : Succeeded(i)
    /\ \E i \in CallsOf("pre_signed_url") : Succeeded(i)

ExplicitCredentials == Truthy(args.ak) /\ Truthy(args.sk)
EnvCredentials ==
    Truthy(env.VOLCENGINE_ACCESS_KEY) /\ Truthy(env.VOLCENGINE_SECRET_KEY)

\* position of an operation in the pipeline
Rank(op) ==
    CASE op = "iam"                  -> 1
      [] op = "ctor"                 -> 2
      [] op = "head_bucket"          -> 3
      [] op = "put_object_from_file" -> 4
      [] op = "pre_signed_url"       -> 5
      [] OTHER                       -> 6

----------------------------------------------------------------------------
(* C1: no fault escapes upload_file_to_tos, whichever collaborator raises   *)
(* (identity fallback, client construction, probe, transfer, signing,       *)
(* client release): the call returns, and the value is the signed URL or a  *)
(* string beginning with "ERROR:".                                          *)
C1_NoFaultEscapes ==
    Ended => /\ outcome = "returned"
             /\ ret # None
             /\ (RetIsSignedUrl \/ RetIsError)

(* C2: credentials come from the first available source in the order        *)
(* explicit parameters, environment, identity fallback; with ak and sk      *)
(* passed explicitly the client is constructed with exactly those and the   *)
(* passed session_token, and no later source is consulted.                  *)
C2_ExplicitCredentialsFirst ==
    /\ \A i \in CallsOf("ctor") :
          ExplicitCredentials =>
              /\ calls[i].req.ak = args.ak
              /\ calls[i].req.sk = args.sk
              /\ calls[i].req.security_token = args.session_token
    /\ \A i \in CallsOf("iam") : ~ExplicitCredentials /\ ~EnvCredentials

(* C3 as stated: in every invocation, whichever step fails (file            *)
(* validation and credential resolution included), close has been called    *)
(* exactly once when the call ends.                                         *)
C3_ReleaseCountIsOneAlways ==
    Ended => Count("close") = 1

(* C3 as amended: when the call ends, close has been called exactly once if *)
(* the transfer client was constructed, and not at all if it was not.       *)
C3_ReleasedOnceIffConstructed ==
    Ended => Count("close") = (IF ClientConstructed THEN 1 ELSE 0)

\* a step after construction failed and the client was released once; and the
\* early exit where there was nothing to release is the violating state of
\* C3_ReleaseCountIsOneAlways
C3_Witness ==
    /\ Ended
    /\ ClientConstructed
    /\ \E i \in CallsOf("head_bucket") : Faulted(i) /\ ~IsNotFound(i)
    /\ Count("close") = 1

C5_NotFoundProbeProceeds ==
    \A i \in CallsOf("head_bucket") :
        IsNotFound(i) =>
            /\ Count("create_bucket") = 0
            /\ i < Len(calls) => calls[i + 1].op = "put_object_from_file"
            /\ Ended => i < Len(calls)
            /\ (Ended /\ UploadSucceeded) =>
                  /\ outcome = "returned"
                  /\ \E p \in CallsOf("put_object_from_file"),
                        g \in CallsOf("pre_signed_url") :
                        /\ ret = calls[g].res
                        /\ calls[g].req.expires = args.expires
                        /\ calls[g].req.bucket = calls[p].req.bucket
                        /\ calls[g].req.key = calls[p].req.key

(* C6: a server fault with status s from the transfer makes the call return *)
(* an error string containing "status_code=s", the service code and the     *)
(* message; no URL, no signing call, and exactly one transfer call.         *)
C6_TransferServerFaultReported ==
    \A i \in CallsOf("put_object_from_file") :
        (Ended /\ IsServerFault(i)) =>
            /\ outcome = "returned"
            /\ RetIsError
            /\ Contains(Val(ret), "status_code=" \o ToString(FaultOf(i).status_code))
            /\ Contains(Val(ret), "code=" \o FaultOf(i).code)
            /\ Contains(Val(ret), "message=" \o FaultOf(i).message)
            /\ ~RetIsSignedUrl
            /\ Count("pre_signed_url") = 0
            /\ Count("put_object_from_file") = 1

\* no source has credentials: none explicit, environment pair unset or empty,
\* and the identity fallback raised or answered with an empty key
NoCredentialsAnywhere ==
    /\ PathKind(args.file_path) = "file"
    /\ ~ExplicitCredentials
    /\ ~EnvCredentials
    /\ \E i \in CallsOf("iam") :
          \/ Faulted(i)
          \/ /\ Succeeded(i)
             /\ \/ ~Truthy(Val(calls[i].res).access_key_id)
                \/ ~Truthy(Val(calls[i].res).secret_access_key)

C8_ReturnsNoneOnFailure ==
    (Returned /\ ~UploadSucceeded) => ~Truthy(ret)

\* the ordering of the collaborator calls: each operation at most once, in
\* pipeline order, each only after the previous one completed (a 404 probe
\* counts as completed); transfer right after the probe; signing right after a
\* successful transfer
C9_Order ==
    /\ \A i, j \in DOMAIN calls :
          i < j => Rank(calls[i].op) < Rank(calls[j].op)
    /\ \A j \in DOMAIN calls :
          (j > 1 /\ calls[j].op # "close") =>
              (Succeeded(j - 1) \/ (calls[j - 1].op = "head_bucket" /\ IsNotFound(j - 1)))
    /\ \A j \in CallsOf("put_object_from_file") :
          /\ j > 1
          /\ calls[j - 1].op = "head_bucket"
          /\ (Succeeded(j - 1) \/ IsNotFound(j - 1))
    /\ \A j \in CallsOf("pre_signed_url") :
          /\ j > 1
          /\ calls[j - 1].op = "put_object_from_file"
          /\ Succeeded(j - 1)

(* C9: one linear pass: identity fallback, construction, probe, transfer,   *)
(* signing are each called at most once, in that order, each only if the    *)
(* previous one completed without a fatal fault; transfer only after the    *)
(* probe answered found or 404 (any other probe fault gives an "ERROR:"     *)
(* result and no transfer); signing only after a successful transfer.       *)
C9_LinearPipeline ==
    /\ C9_Order
    /\ \A i \in CallsOf("head_bucket") :
          (Faulted(i) /\ ~IsNotFound(i)) =>
              /\ Count("put_object_from_file") = 0
              /\ Ended => (outcome = "returned" /\ RetIsError)

(* C5, C6 and C9 fail only on runs in which client.close() raises in the    *)
(* finally block (the fault C1 is about): on every other run they hold.     *)
ReleaseFaulted == \E i \in CallsOf("close") : Faulted(i)

HoldUnlessReleaseFaults ==
    ReleaseFaulted \/ /\ C5_NotFoundProbeProceeds
                      /\ C6_TransferServerFaultReported
                      /\ C9_LinearPipeline

(* C10: a constructed client is released exactly once on every exit path,  *)
(* after the last probe/transfer/signing call and before the call ends,     *)
(* and nothing is done on the client after its release.                     *)
C10_ReleasedOnceLast ==
    /\ Count("close") <= 1
    /\ \A i \in CallsOf("close") :
          /\ i = Len(calls)
          /\ Ended
          /\ client # None
          /\ calls[i].req = Val(client)
    /\ (Ended /\ ClientConstructed) => Count("close") = 1

\* the signing call faulted on a constructed client, which was then released
C10_Witness ==
    /\ Ended
    /\ ClientConstructed
    /\ \E i \in CallsOf("pre_signed_url") : Faulted(i)
    /\ Count("close") = 1
    /\ calls[Len(calls)].op = "close"
====
